---- MODULE Spec2Model ----
(***************************************************************************)
(* volume.tier.move of the SeaweedFS shell: the candidate selector         *)
(* (collectVolumeIdsForTierChange), the coordinator loop (Do and           *)
(* doVolumeTierMove) with its gate on activeServers, and the executor      *)
(* goroutine (doMoveOneVolume).                                            *)
(***************************************************************************)
EXTENDS Integers, Sequences, FiniteSets, TLC

(***************************************************************************)
(* Bounds of the model.                                                    *)
(***************************************************************************)
\* largest number of volume slots a node has on the target tier
MaxSlots == 1
\* largest number of replicas in the cluster, all volumes together
MaxTotalReplicas == 4
\* ticks of a time.Duration per second (time.Second is 10^9 ns)
TicksPerSecond == 2

\* IEEE-754 binary64: bits of the significand
MantissaBits == 53

Nodes == {"n1", "n2", "n3", "n4"}
NoNode == ""
VolumeIds == {1, 2}

(***************************************************************************)
(* float64 arithmetic, as far as line 219 needs it.  A positive float64 is *)
(* [m, e]: m the 53 significand bits, most significant first, e the        *)
(* exponent of the last bit; its value is Nat(m) * 2^e.  Long numbers are  *)
(* handled in limbs of 15 bits so that no intermediate value leaves the    *)
(* 32-bit integers.                                                        *)
(***************************************************************************)
Pow2(k) ==
    <<1, 2, 4, 8, 16, 32, 64, 128, 256, 512, 1024, 2048, 4096, 8192, 16384,
      32768, 65536, 131072, 262144, 524288, 1048576, 2097152, 4194304,
      8388608, 16777216, 33554432, 67108864, 134217728, 268435456,
      536870912, 1073741824>>[k + 1]

LimbBits == 15
LimbBase == Pow2(LimbBits)

Zeros(k) ==
    [i \in 1..k |-> 0]

\* the bits of a sequence of limbs, most significant first
BitsOfLimbs(limbs) ==
    [i \in 1..(LimbBits * Len(limbs)) |->
        (limbs[((i - 1) \div LimbBits) + 1]
            \div Pow2(LimbBits - 1 - ((i - 1) % LimbBits))) % 2]

Nat5(b, i) ==
    16 * b[i] + 8 * b[i + 1] + 4 * b[i + 2] + 2 * b[i + 3] + b[i + 4]

\* the limb held by the 15 bits of b from index i on
LimbAt(b, i) ==
    1024 * Nat5(b, i) + 32 * Nat5(b, i + 5) + Nat5(b, i + 10)

\* the limbs of a bit sequence whose length is a multiple of 15
LimbsOfBits(b) ==
    [j \in 1..(Len(b) \div LimbBits) |-> LimbAt(b, LimbBits * (j - 1) + 1)]

AnyOne(b) ==
    \E i \in 1..Len(b) : b[i] = 1

\* index of the first 1 of b
FirstOne(b) ==
    CHOOSE i \in 1..Len(b) : b[i] = 1 /\ \A j \in 1..(i - 1) : b[j] = 0

\* b + 1 on Len(b) bits, for b not all ones
IncBits(b) ==
    LET k == CHOOSE i \in 1..Len(b) :
                 b[i] = 0 /\ \A j \in (i + 1)..Len(b) : b[j] = 1
    IN  [i \in 1..Len(b) |-> IF i < k THEN b[i] ELSE IF i = k THEN 1 ELSE 0]

\* round to nearest, ties to even: digits start with a 1 and hold at least
\* MantissaBits + 1 digits; sticky says a nonzero part lies beyond them; e is
\* the exponent of digit number MantissaBits
RoundNearestEven(digits, sticky, e) ==
    LET m     == SubSeq(digits, 1, MantissaBits)
        guard == digits[MantissaBits + 1]
        rest  == sticky \/ AnyOne(SubSeq(digits, MantissaBits + 2, Len(digits)))
        up    == guard = 1 /\ (rest \/ m[MantissaBits] = 1)
    IN  IF ~up THEN [m |-> m, e |-> e]
        ELSE IF \E i \in 1..MantissaBits : m[i] = 0
             THEN [m |-> IncBits(m), e |-> e]
        ELSE [m |-> <<1>> \o Zeros(MantissaBits - 1), e |-> e + 1]

\* the next k limbs of the fraction r/d (0 <= r < d < 2^16) after acc, and the
\* remainder left
RECURSIVE FracLimbs(_, _, _, _)
FracLimbs(r, d, k, acc) ==
    IF k = 0 THEN [limbs |-> acc, rem |-> r]
    ELSE FracLimbs((r * LimbBase) % d, d, k - 1,
                   Append(acc, (r * LimbBase) \div d))

\* the float64 quotient p / d: p a positive integer below 2^30, d one below
\* 2^16, p / d at least 2^-22
FloatDiv(p, d) ==
    LET int  == <<(p \div d) \div LimbBase, (p \div d) % LimbBase>>
        f    == FracLimbs(p % d, d, 5, << >>)
        all  == BitsOfLimbs(int \o f.limbs)
        s    == FirstOne(all)
    IN  RoundNearestEven(SubSeq(all, s, Len(all)), f.rem # 0,
                         0 - 22 - s)

\* limbs * k + carry, limb by limb from the last one
RECURSIVE MulLimbs(_, _, _, _)
MulLimbs(limbs, k, carry, acc) ==
    IF limbs = << >> THEN <<carry>> \o acc
    ELSE LET v == limbs[Len(limbs)] * k + carry
         IN  MulLimbs(SubSeq(limbs, 1, Len(limbs) - 1), k, v \div LimbBase,
                      <<v % LimbBase>> \o acc)

\* the float64 product x * float64(k), k a positive integer below 2^15
FloatMulNat(x, k) ==
    LET prod == BitsOfLimbs(MulLimbs(LimbsOfBits(Zeros(7) \o x.m), k, 0, << >>))
        s    == FirstOne(prod)
    IN  RoundNearestEven(SubSeq(prod, s, Len(prod)) \o <<0>>, FALSE,
                         x.e + 23 - s)

\* x * 2^k, exact
FloatMulPow2(x, k) ==
    [m |-> x.m, e |-> x.e + k]

\* the integer part of x, 2^31 - 1 standing for all that is larger
FloatFloor(x) ==
    LET keep == MantissaBits + x.e
    IN  IF keep > 30 THEN 2147483647
        ELSE IF keep <= 0 THEN 0
        ELSE LET l == LimbsOfBits(Zeros(45 - keep) \o SubSeq(x.m, 1, keep))
             IN  (l[1] * LimbBase + l[2]) * LimbBase + l[3]

\* float64(size) > fullPercentage/100*float64(volumeSizeLimitMb)*1024*1024:
\* an integer below 2^31 exceeds a float exactly when it exceeds the float's
\* integer part
isFullEnough(size, fullPercentage, volumeSizeLimitMb) ==
    size > FloatFloor(FloatMulPow2(FloatMulPow2(
               FloatMulNat(FloatDiv(fullPercentage, 100), volumeSizeLimitMb), 10), 10))

(***************************************************************************)
(* path/filepath.Match on patterns of letters, "*", "?" and "[".  A "["    *)
(* opens a character class; the patterns of the model never close one, so  *)
(* a pattern holding "[" is malformed (ErrBadPattern).                     *)
(***************************************************************************)
Rest(s) ==
    SubSeq(s, 2, Len(s))

RECURSIVE GlobMatch(_, _)
GlobMatch(pattern, name) ==
    IF pattern = << >> THEN name = << >>
    ELSE IF pattern[1] = "*"
         THEN \E k \in 0..Len(name) :
                  GlobMatch(Rest(pattern), SubSeq(name, k + 1, Len(name)))
    ELSE /\ name # << >>
         /\ pattern[1] = "?" \/ pattern[1] = name[1]
         /\ GlobMatch(Rest(pattern), Rest(name))

Match(pattern, name) ==
    IF \E i \in 1..Len(pattern) : pattern[i] = "["
    THEN [matched |-> FALSE, err |-> TRUE]
    ELSE [matched |-> GlobMatch(pattern, name), err |-> FALSE]

\* types.ToDiskType: the empty string names the hard drive tier
ToDiskType(s) ==
    IF s = "" THEN "hdd" ELSE s

(***************************************************************************)
(* collectVolumeIdsForTierChange                                           *)
(***************************************************************************)
\* int64(quietPeriod / time.Second): Go's integer division truncates
quietSecondsOf(quietPeriod) ==
    quietPeriod \div TicksPerSecond

\* lines 207-222 for one volume of a data node: "return" leaves the callback
\* of this data node, "continue" skips the volume, "add" sets vidMap[v.Id]
volumeVerdict(v, volumeSizeLimitMb, sourceTier, collectionPattern, fullPercentage, quietSeconds, nowUnixSeconds) ==
    IF collectionPattern # << >> /\ Match(collectionPattern, v.Collection).err
    THEN "return"
    ELSE IF collectionPattern # << >>
            /\ ~Match(collectionPattern, v.Collection).matched
    THEN "continue"
    ELSE IF /\ v.ModifiedAtSecond + quietSeconds < nowUnixSeconds
            /\ ToDiskType(v.DiskType) = sourceTier
            /\ isFullEnough(v.Size, fullPercentage, volumeSizeLimitMb)
    THEN "add"
    ELSE "continue"

\* the callback of eachDataNode over the volumes vs of one data node, from
\* volume number i on
RECURSIVE scanDataNode(_, _, _, _, _, _, _, _, _)
scanDataNode(vs, i, vidMap, volumeSizeLimitMb, sourceTier, collectionPattern, fullPercentage, quietSeconds, nowUnixSeconds) ==
    IF i > Len(vs) THEN vidMap
    ELSE LET verdict == volumeVerdict(vs[i], volumeSizeLimitMb, sourceTier,
                            collectionPattern, fullPercentage, quietSeconds,
                            nowUnixSeconds)
         IN  IF verdict = "return" THEN vidMap
             ELSE scanDataNode(vs, i + 1,
                      IF verdict = "add" THEN vidMap \cup {vs[i].Id} ELSE vidMap,
                      volumeSizeLimitMb, sourceTier, collectionPattern,
                      fullPercentage, quietSeconds, nowUnixSeconds)

\* vidMap after eachDataNode: the keys set by the callback on any data node
collectVidMap(topology, volumeSizeLimitMb, sourceTier, collectionPattern, fullPercentage, quietPeriod, nowUnixSeconds) ==
    UNION {scanDataNode(topology[n], 1, {}, volumeSizeLimitMb, sourceTier,
                        collectionPattern, fullPercentage,
                        quietSecondsOf(quietPeriod), nowUnixSeconds)
           : n \in DOMAIN topology}

\* the sequences that list every element of the set S once
RECURSIVE Orderings(_)
Orderings(S) ==
    IF S = {} THEN {<< >>}
    ELSE UNION {{<<x>> \o t : t \in Orderings(S \ {x})} : x \in S}

\* as collectVolumeIdsForTierChange, but every replica that passes is
\* appended, without vidMap in between
collectVolumeIdsWithoutVidMap(topology, volumeSizeLimitMb, sourceTier, collectionPattern, fullPercentage, quietPeriod, nowUnixSeconds) ==
    LET passing == {e \in UNION {{<<n, k>> : k \in 1..Len(topology[n])}
                                 : n \in DOMAIN topology} :
                       volumeVerdict(topology[e[1]][e[2]], volumeSizeLimitMb,
                           sourceTier, collectionPattern, fullPercentage,
                           quietSecondsOf(quietPeriod), nowUnixSeconds) = "add"}
    IN  {[i \in 1..Len(o) |-> topology[o[i][1]][o[i][2]].Id] : o \in Orderings(passing)}

\* lines 227-229: the keys of vidMap appended in the order the map yields them,
\* which Go leaves open
collectVolumeIdsForTierChange(topology, volumeSizeLimitMb, sourceTier, collectionPattern, fullPercentage, quietPeriod, nowUnixSeconds) ==
    Orderings(collectVidMap(topology, volumeSizeLimitMb, sourceTier,
                            collectionPattern, fullPercentage, quietPeriod,
                            nowUnixSeconds))

(***************************************************************************)
(* Destination ranking and choice                                          *)
(***************************************************************************)
\* capacityByFreeVolumeCount(toDiskType): free slots of the target tier
capacityByFreeVolumeCount(diskInfo) ==
    diskInfo.MaxVolumeCount - diskInfo.VolumeCount

\* keepDataNodesSorted: the data nodes in descending order of free slots; the
\* sort is not stable, so nodes with equal free slots come in any order
keepDataNodesSorted(infos) ==
    {o \in Orderings(DOMAIN infos) :
        \A i \in 1..Len(o), j \in 1..Len(o) :
            i < j => capacityByFreeVolumeCount(infos[o[i]])
                        >= capacityByFreeVolumeCount(infos[o[j]])}

\* as isOneOf, but no server is ever found among the locations
isOneOfNever(server, locations) ==
    FALSE

isOneOf(server, locations) ==
    \E i \in 1..Len(locations) : server = locations[i]

\* lines 119-124: the last location that is not dst, "" when there is none
sourceVolumeServerFor(locations, dst) ==
    LET others == {i \in 1..Len(locations) : locations[i] # dst}
    IN  IF others = {} THEN NoNode
        ELSE locations[CHOOSE i \in others : \A j \in others : j <= i]

\* as findTarget, but the free slots of dst are not looked at
RECURSIVE findTargetAnyCapacity(_, _, _, _)
findTargetAnyCapacity(allLocations, i, locations, infos) ==
    IF i > Len(allLocations)
    THEN [hasFoundTarget |-> FALSE, dst |-> NoNode, sourceVolumeServer |-> NoNode]
    ELSE LET dst == allLocations[i]
         IN  IF /\ ~isOneOf(dst, locations)
                /\ sourceVolumeServerFor(locations, dst) # NoNode
             THEN [hasFoundTarget |-> TRUE, dst |-> dst,
                   sourceVolumeServer |-> sourceVolumeServerFor(locations, dst)]
             ELSE findTargetAnyCapacity(allLocations, i + 1, locations, infos)

\* lines 113-129: the loop over allLocations from index i on, up to the first
\* dst it accepts
RECURSIVE findTarget(_, _, _, _)
findTarget(allLocations, i, locations, infos) ==
    IF i > Len(allLocations)
    THEN [hasFoundTarget |-> FALSE, dst |-> NoNode, sourceVolumeServer |-> NoNode]
    ELSE LET dst == allLocations[i]
         IN  IF capacityByFreeVolumeCount(infos[dst]) > 0
                /\ ~isOneOf(dst, locations)
                /\ sourceVolumeServerFor(locations, dst) # NoNode
             THEN [hasFoundTarget |-> TRUE, dst |-> dst,
                   sourceVolumeServer |-> sourceVolumeServerFor(locations, dst)]
             ELSE findTarget(allLocations, i + 1, locations, infos)

(***************************************************************************)
(* State                                                                   *)
(***************************************************************************)
VARIABLES
    args,            \* the flags of the command, and volumeSizeLimitMb and now
    topologyInfo,    \* snapshot: the volumes listed on each data node
    diskInfos,       \* snapshot: DiskInfos[toDiskType] of each data node
    replicas,        \* cluster: the nodes that hold each volume
    readonly,        \* cluster: the nodes that hold each volume read-only
    pc,              \* where Do stands
    result,          \* what Do returned
    volumeIds,       \* the candidates, in the order Do walks them
    next,            \* index in volumeIds of the candidate at hand
    call,            \* locals of the running doVolumeTierMove
    wg,              \* the WaitGroup counter of each doVolumeTierMove call
    activeServers,   \* c.activeServers
    condLocker,      \* who holds c.activeServersCond.L
    woken,           \* a Signal reached the coordinator in Wait
    tasks,           \* the goroutines started at line 150
    rpcs,            \* the calls made to volume servers, in order
    out              \* the lines written to writer and stdout, in order

vars ==
    <<args, topologyInfo, diskInfos, replicas, readonly, pc, result,
      volumeIds, next, call, wg, activeServers, condLocker, woken, tasks,
      rpcs, out>>

cluster == <<replicas, readonly>>
gate == <<activeServers, condLocker, woken>>

NoCall ==
    [vid |-> 0, locations |-> << >>, sourceVolumeServer |-> NoNode,
     dst |-> NoNode]

(***************************************************************************)
(* Initial states: a cluster and the snapshot taken of it                  *)
(***************************************************************************)
Placements ==
    {p \in [VolumeIds -> SUBSET Nodes] :
        /\ \A v \in VolumeIds : Cardinality(p[v]) <= 3
        /\ Cardinality(p[1]) + Cardinality(p[2]) <= MaxTotalReplicas
        /\ Cardinality(p[1]) >= Cardinality(p[2])}

\* the slot counts of the target tier: node names carry no meaning, so the
\* nodes are numbered by ascending VolumeCount
SlotCounts ==
    {d \in [Nodes -> [VolumeCount : 0..MaxSlots, MaxVolumeCount : {MaxSlots}]] :
        /\ d["n1"].VolumeCount <= d["n2"].VolumeCount
        /\ d["n2"].VolumeCount <= d["n3"].VolumeCount
        /\ d["n3"].VolumeCount <= d["n4"].VolumeCount}

\* a volume of collection "a" on the hard drive tier, full and quiet under
\* DefaultArgs
FullQuietVolume(v) ==
    [Id |-> v, Collection |-> <<"a">>, DiskType |-> "hdd",
     Size |-> 7602177, ModifiedAtSecond |-> 0]

\* the volumes listed on node n when every replica of volume v looks like
\* info[v][n]
VolumeInfosOf(n, placement, info) ==
    LET ids == SelectSeq([v \in VolumeIds |-> v], LAMBDA v : n \in placement[v])
    IN  [k \in 1..Len(ids) |-> info[ids[k]][n]]

DefaultArgs ==
    [collectionPattern |-> << >>, fullPercentage |-> 29,
     quietPeriod |-> TicksPerSecond, source |-> "hdd", target |-> "ssd",
     applyChange |-> FALSE, volumeSizeLimitMb |-> 25, nowUnixSeconds |-> 10]

Idle ==
    /\ result = "pending"
    /\ volumeIds = << >>
    /\ next = 1
    /\ call = NoCall
    /\ wg = << >>
    /\ activeServers = {}
    /\ condLocker = ""
    /\ woken = FALSE
    /\ tasks = << >>
    /\ rpcs = << >>
    /\ out = << >>

\* the volumes are alike too, so volume 1 is the one with more replicas
Init ==
    /\ pc = "start"
    /\ args = DefaultArgs
    /\ \E placement \in Placements :
          /\ replicas = placement
          /\ topologyInfo =
                [n \in Nodes |->
                    VolumeInfosOf(n, placement,
                        [v \in VolumeIds |-> [m \in Nodes |-> FullQuietVolume(v)]])]
    /\ readonly = [v \in VolumeIds |-> {}]
    /\ diskInfos \in SlotCounts
    /\ Idle

(***************************************************************************)
(* Do: the coordinator                                                     *)
(***************************************************************************)
Line(line, vid, from, to) ==
    [line |-> line, vid |-> vid, from |-> from, to |-> to]

Rpc(op, vid, from, node, ok) ==
    [op |-> op, vid |-> vid, from |-> from, node |-> node, ok |-> ok]

\* lines 44-73: the gate is made, the flags are read, the tiers compared and
\* the topology fetched; every failure but that of Parse returns an error
DoStart ==
    /\ pc = "start"
    /\ activeServers' = {}
    /\ \E failure \in {"none", "confirmIsLocked", "Parse", "collectTopologyInfo"},
          target \in {"ssd", "hdd", ""}, applyChange \in BOOLEAN :
          LET flags == [args EXCEPT !.target = target, !.applyChange = applyChange]
          IN  IF failure = "confirmIsLocked"
              THEN /\ result' = "error"
                   /\ pc' = "returned"
                   /\ args' = args
              ELSE IF failure = "Parse"
              THEN /\ result' = "nil"
                   /\ pc' = "returned"
                   /\ args' = args
              ELSE IF ToDiskType(flags.source) = ToDiskType(flags.target)
                      \/ failure = "collectTopologyInfo"
              THEN /\ result' = "error"
                   /\ pc' = "returned"
                   /\ args' = flags
              ELSE /\ result' = result
                   /\ pc' = "collect"
                   /\ args' = flags
    /\ UNCHANGED <<topologyInfo, diskInfos, cluster, volumeIds, next, call, wg,
                   condLocker, woken, tasks, rpcs, out>>

\* lines 76-82: the candidates are collected
DoCollect ==
    /\ pc = "collect"
    /\ \E vids \in collectVolumeIdsForTierChange(topologyInfo,
                       args.volumeSizeLimitMb, ToDiskType(args.source),
                       args.collectionPattern, args.fullPercentage,
                       args.quietPeriod, args.nowUnixSeconds) :
          /\ volumeIds' = vids
          /\ wg' = [i \in 1..Len(vids) |-> 0]
    /\ next' = 1
    /\ pc' = "loop"
    /\ UNCHANGED <<args, topologyInfo, diskInfos, cluster, result, call, gate,
                   tasks, rpcs, out>>

\* as applyChanges, but the flag is taken as set
applyChangesAlways(flags) ==
    TRUE

\* lines 84 and 131: the value of the flag -force
applyChanges(flags) ==
    flags.applyChange

\* as volumeNotFound, but Do returns the error of the call
volumeNotFoundAborts(vid) ==
    /\ out' = Append(out, Line("volume not found", vid, NoNode, NoNode))
    /\ result' = "error"
    /\ pc' = "returned"
    /\ UNCHANGED <<next, call, diskInfos>>

\* lines 103-106 and 84-86: the lookup fails, doVolumeTierMove returns an
\* error, Do prints it and goes on
volumeNotFound(vid) ==
    /\ out' = Append(out, Line("volume not found", vid, NoNode, NoNode))
    /\ next' = next + 1
    /\ UNCHANGED <<pc, result, call, diskInfos>>

\* lines 163-169 with hasFoundTarget false
noTargetFound(vid) ==
    /\ out' = Append(out, Line("can not find disk type", vid, NoNode, NoNode))
    /\ next' = next + 1
    /\ UNCHANGED <<pc, result, call, diskInfos>>

\* lines 128-135 and 163-169: the dry run counts the volume on dst and returns
simulateMove(vid, t) ==
    /\ out' = Append(out, Line("moving volume", vid, t.sourceVolumeServer, t.dst))
    /\ diskInfos' = [diskInfos EXCEPT ![t.dst].VolumeCount = @ + 1]
    /\ next' = next + 1
    /\ UNCHANGED <<pc, result, call>>

\* lines 128-130: the call goes on to the gate
startMove(vid, locations, t) ==
    /\ out' = Append(out, Line("moving volume", vid, t.sourceVolumeServer, t.dst))
    /\ call' = [vid |-> vid, locations |-> locations,
                sourceVolumeServer |-> t.sourceVolumeServer, dst |-> t.dst]
    /\ pc' = "lock"
    /\ UNCHANGED <<next, result, diskInfos>>

\* lines 83-86 and 101-135: the next candidate is looked up and a destination
\* chosen for it; only with applyChanges and a destination does the call go on
chooseTarget ==
    /\ pc = "loop"
    /\ next <= Len(volumeIds)
    /\ LET vid == volumeIds[next]
       IN  \E found \in BOOLEAN, locations \in Orderings(replicas[vid]),
              allLocations \in keepDataNodesSorted(diskInfos) :
              LET t == findTarget(allLocations, 1, locations, diskInfos)
              IN  IF ~found \/ locations = << >> THEN volumeNotFound(vid)
                  ELSE IF ~t.hasFoundTarget THEN noTargetFound(vid)
                  ELSE IF ~applyChanges(args) THEN simulateMove(vid, t)
                  ELSE startMove(vid, locations, t)
    /\ UNCHANGED <<args, topologyInfo, cluster, volumeIds, wg, gate, tasks, rpcs>>

\* line 137, and the return of Wait at line 141: the lock of the condition is
\* taken
condLock ==
    /\ pc \in {"lock"} \cup (IF woken THEN {"wait"} ELSE {})
    /\ condLocker = ""
    /\ condLocker' = "coordinator"
    /\ woken' = FALSE
    /\ pc' = "check"
    /\ UNCHANGED <<args, topologyInfo, diskInfos, cluster, result, volumeIds,
                   next, call, wg, activeServers, tasks, rpcs, out>>

\* as condCheck, but wg.Add(1) is left out
condCheckWithoutAdd ==
    /\ pc = "check"
    /\ condLocker = "coordinator"
    /\ condLocker' = ""
    /\ IF call.sourceVolumeServer \in activeServers \/ call.dst \in activeServers
       THEN /\ pc' = "wait"
            /\ UNCHANGED <<activeServers, tasks>>
       ELSE /\ activeServers' = activeServers \cup {call.sourceVolumeServer, call.dst}
            /\ tasks' = Append(tasks,
                   [call |-> next, vid |-> call.vid, locations |-> call.locations,
                    sourceVolumeServer |-> call.sourceVolumeServer,
                    dst |-> call.dst, pc |-> "mark", loc |-> 1, err |-> FALSE])
            /\ pc' = "wgWait"
    /\ UNCHANGED <<args, topologyInfo, diskInfos, cluster, result, volumeIds,
                   next, call, wg, woken, rpcs, out>>

\* lines 138-158: under the lock, wait while either server is active; else
\* enter both, unlock and start the goroutine
condCheck ==
    /\ pc = "check"
    /\ condLocker = "coordinator"
    /\ condLocker' = ""
    /\ IF call.sourceVolumeServer \in activeServers \/ call.dst \in activeServers
       THEN /\ pc' = "wait"
            /\ UNCHANGED <<activeServers, wg, tasks>>
       ELSE /\ activeServers' = activeServers \cup {call.sourceVolumeServer, call.dst}
            /\ wg' = [wg EXCEPT ![next] = @ + 1]
            /\ tasks' = Append(tasks,
                   [call |-> next, vid |-> call.vid, locations |-> call.locations,
                    sourceVolumeServer |-> call.sourceVolumeServer,
                    dst |-> call.dst, pc |-> "mark", loc |-> 1, err |-> FALSE])
            /\ pc' = "wgWait"
    /\ UNCHANGED <<args, topologyInfo, diskInfos, cluster, result, volumeIds,
                   next, call, woken, rpcs, out>>

\* as wgWait, but wg.Wait() is left out
wgWaitWithoutJoin ==
    /\ pc = "wgWait"
    /\ next' = next + 1
    /\ call' = NoCall
    /\ pc' = "loop"
    /\ UNCHANGED <<args, topologyInfo, diskInfos, cluster, result, volumeIds,
                   wg, gate, tasks, rpcs, out>>

\* lines 163-169: the call waits for its goroutine and returns
wgWait ==
    /\ pc = "wgWait"
    /\ wg[next] = 0
    /\ next' = next + 1
    /\ call' = NoCall
    /\ pc' = "loop"
    /\ UNCHANGED <<args, topologyInfo, diskInfos, cluster, result, volumeIds,
                   wg, gate, tasks, rpcs, out>>

\* as lines 137-158, but the goroutine is started past the gate
startUngated ==
    /\ pc = "lock"
    /\ wg' = [wg EXCEPT ![next] = @ + 1]
    /\ tasks' = Append(tasks,
           [call |-> next, vid |-> call.vid, locations |-> call.locations,
            sourceVolumeServer |-> call.sourceVolumeServer,
            dst |-> call.dst, pc |-> "mark", loc |-> 1, err |-> FALSE])
    /\ pc' = "wgWait"
    /\ UNCHANGED <<args, topologyInfo, diskInfos, cluster, result, volumeIds,
                   next, call, gate, rpcs, out>>

\* as doVolumeTierMove, but the goroutine is neither gated nor joined
doVolumeTierMoveFireAndForget ==
    \/ chooseTarget
    \/ startUngated
    \/ wgWaitWithoutJoin

doVolumeTierMove ==
    \/ chooseTarget
    \/ condLock
    \/ condCheck
    \/ wgWait

\* line 89
DoReturn ==
    /\ pc = "loop"
    /\ next > Len(volumeIds)
    /\ result' = "nil"
    /\ pc' = "returned"
    /\ UNCHANGED <<args, topologyInfo, diskInfos, cluster, volumeIds, next,
                   call, wg, gate, tasks, rpcs, out>>

(***************************************************************************)
(* The goroutine of lines 150-158 and doMoveOneVolume                      *)
(***************************************************************************)
TaskAt(t, where) ==
    /\ t \in 1..Len(tasks)
    /\ tasks[t].pc = where

\* as returnOnError, but the goroutine goes on whatever the call returned
goOnError(t, failed, then) ==
    tasks' = [tasks EXCEPT ![t].pc = then]

\* lines 175-180 and 151-153: when the call failed doMoveOneVolume returns its
\* error, else it goes on to the step then
returnOnError(t, failed, then) ==
    tasks' = IF failed
             THEN [tasks EXCEPT ![t].pc = "releaseSource", ![t].err = TRUE]
             ELSE [tasks EXCEPT ![t].pc = then]

\* line 175, markVolumeReadonly: the locations are marked one after the other
\* and the first failure ends the call; k of them were marked
markVolumeReadonly(t) ==
    /\ TaskAt(t, "mark")
    /\ LET task == tasks[t]
           locs == task.locations
       IN  \E k \in 0..Len(locs) :
              LET calls == IF k = Len(locs) THEN k ELSE k + 1
              IN  /\ readonly' = [readonly EXCEPT ![task.vid] =
                                      @ \cup {locs[i] : i \in 1..k}]
                  /\ rpcs' = rpcs \o [i \in 1..calls |->
                                 Rpc("readonly", task.vid, NoNode, locs[i], i <= k)]
                  /\ returnOnError(t, k < Len(locs), "copy")
                  /\ IF k = Len(locs)
                     THEN /\ out' = out
                     ELSE /\ out' = Append(out, Line("move volume failed", task.vid,
                                                     task.sourceVolumeServer, task.dst))
    /\ UNCHANGED <<args, topologyInfo, diskInfos, replicas, pc, result,
                   volumeIds, next, call, wg, gate>>

\* line 178, LiveMoveVolume: on success the destination holds the volume,
\* read-only, beside the source
LiveMoveVolume(t) ==
    /\ TaskAt(t, "copy")
    /\ LET task == tasks[t]
       IN  \E ok \in BOOLEAN :
              /\ rpcs' = Append(rpcs, Rpc("copy", task.vid, task.sourceVolumeServer,
                                          task.dst, ok))
              /\ returnOnError(t, ~ok, "count")
              /\ IF ok
                 THEN /\ replicas' = [replicas EXCEPT ![task.vid] = @ \cup {task.dst}]
                      /\ readonly' = [readonly EXCEPT ![task.vid] = @ \cup {task.dst}]
                      /\ out' = out
                 ELSE /\ UNCHANGED <<replicas, readonly>>
                      /\ out' = Append(out, Line("move volume failed", task.vid,
                                                 task.sourceVolumeServer, task.dst))
    /\ UNCHANGED <<args, topologyInfo, diskInfos, pc, result, volumeIds, next,
                   call, wg, gate>>

\* as adjustVolumeCount, but the volume is counted on the source
adjustVolumeCountOnSource(t) ==
    /\ TaskAt(t, "count")
    /\ diskInfos' = [diskInfos EXCEPT ![tasks[t].sourceVolumeServer].VolumeCount = @ + 1]
    /\ tasks' = [tasks EXCEPT ![t].pc = "delete"]
    /\ UNCHANGED <<args, topologyInfo, cluster, pc, result, volumeIds, next,
                   call, wg, gate, rpcs, out>>

\* line 183
adjustVolumeCount(t) ==
    /\ TaskAt(t, "count")
    /\ diskInfos' = [diskInfos EXCEPT ![tasks[t].dst].VolumeCount = @ + 1]
    /\ tasks' = [tasks EXCEPT ![t].pc = "delete"]
    /\ UNCHANGED <<args, topologyInfo, cluster, pc, result, volumeIds, next,
                   call, wg, gate, rpcs, out>>

\* as staleLocations, but the source is not spared
staleLocationsButDst(task, i) ==
    {j \in i..Len(task.locations) : task.locations[j] # task.dst}

\* lines 186-193: the indexes, from index i on, of the locations the loop
\* deletes from
staleLocations(task, i) ==
    {j \in i..Len(task.locations) :
        /\ task.locations[j] # task.dst
        /\ task.locations[j] # task.sourceVolumeServer}

\* as deleteVolume, but the loop ends at the first deleteVolume that fails
deleteVolumeUntilFailure(t) ==
    /\ TaskAt(t, "delete")
    /\ LET task  == tasks[t]
           stale == staleLocations(task, task.loc)
       IN  IF stale = {}
           THEN /\ tasks' = [tasks EXCEPT ![t].pc = "releaseSource"]
                /\ UNCHANGED <<replicas, readonly, rpcs, out>>
           ELSE LET j    == CHOOSE i \in stale : \A k \in stale : i <= k
                    node == task.locations[j]
                IN  \E ok \in BOOLEAN :
                       /\ rpcs' = Append(rpcs, Rpc("delete", task.vid, NoNode, node, ok))
                       /\ IF ok
                          THEN /\ replicas' = [replicas EXCEPT ![task.vid] = @ \ {node}]
                               /\ readonly' = [readonly EXCEPT ![task.vid] = @ \ {node}]
                               /\ tasks' = [tasks EXCEPT ![t].loc = j + 1]
                               /\ out' = out
                          ELSE /\ UNCHANGED <<replicas, readonly>>
                               /\ tasks' = [tasks EXCEPT ![t].pc = "releaseSource"]
                               /\ out' = Append(out, Line("failed to delete volume",
                                                          task.vid, NoNode, node))
    /\ UNCHANGED <<args, topologyInfo, diskInfos, pc, result, volumeIds, next,
                   call, wg, gate>>

\* lines 186-193: the next deleteVolume of the loop, or its end
deleteVolume(t) ==
    /\ TaskAt(t, "delete")
    /\ LET task  == tasks[t]
           stale == staleLocations(task, task.loc)
       IN  IF stale = {}
           THEN /\ tasks' = [tasks EXCEPT ![t].pc = "releaseSource"]
                /\ UNCHANGED <<replicas, readonly, rpcs, out>>
           ELSE LET j    == CHOOSE i \in stale : \A k \in stale : i <= k
                    node == task.locations[j]
                IN  \E ok \in BOOLEAN :
                       /\ rpcs' = Append(rpcs, Rpc("delete", task.vid, NoNode, node, ok))
                       /\ tasks' = [tasks EXCEPT ![t].loc = j + 1]
                       /\ IF ok
                          THEN /\ replicas' = [replicas EXCEPT ![task.vid] = @ \ {node}]
                               /\ readonly' = [readonly EXCEPT ![task.vid] = @ \ {node}]
                               /\ out' = out
                          ELSE /\ UNCHANGED <<replicas, readonly>>
                               /\ out' = Append(out, Line("failed to delete volume",
                                                          task.vid, NoNode, node))
    /\ UNCHANGED <<args, topologyInfo, diskInfos, pc, result, volumeIds, next,
                   call, wg, gate>>

\* as releaseSource, but the source stays in activeServers
releaseSourceForgotten(t) ==
    /\ TaskAt(t, "releaseSource")
    /\ tasks' = [tasks EXCEPT ![t].pc = "releaseDest"]
    /\ UNCHANGED <<args, topologyInfo, diskInfos, cluster, pc, result,
                   volumeIds, next, call, wg, gate, rpcs, out>>

\* line 154
releaseSource(t) ==
    /\ TaskAt(t, "releaseSource")
    /\ activeServers' = activeServers \ {tasks[t].sourceVolumeServer}
    /\ tasks' = [tasks EXCEPT ![t].pc = "releaseDest"]
    /\ UNCHANGED <<args, topologyInfo, diskInfos, cluster, pc, result,
                   volumeIds, next, call, wg, condLocker, woken, rpcs, out>>

\* as releaseDest, but the destination stays in activeServers
releaseDestForgotten(t) ==
    /\ TaskAt(t, "releaseDest")
    /\ tasks' = [tasks EXCEPT ![t].pc = "signal"]
    /\ UNCHANGED <<args, topologyInfo, diskInfos, cluster, pc, result,
                   volumeIds, next, call, wg, gate, rpcs, out>>

\* line 155
releaseDest(t) ==
    /\ TaskAt(t, "releaseDest")
    /\ activeServers' = activeServers \ {tasks[t].dst}
    /\ tasks' = [tasks EXCEPT ![t].pc = "signal"]
    /\ UNCHANGED <<args, topologyInfo, diskInfos, cluster, pc, result,
                   volumeIds, next, call, wg, condLocker, woken, rpcs, out>>

\* line 156: Signal wakes one goroutine waiting on the condition, if any; the
\* coordinator is the only one that ever waits
condSignal(t) ==
    /\ TaskAt(t, "signal")
    /\ woken' = (woken \/ pc = "wait")
    /\ tasks' = [tasks EXCEPT ![t].pc = "done"]
    /\ UNCHANGED <<args, topologyInfo, diskInfos, cluster, pc, result,
                   volumeIds, next, call, wg, activeServers, condLocker, rpcs,
                   out>>

\* as wgDone, but wg.Done() is left out
wgDoneForgotten(t) ==
    /\ TaskAt(t, "done")
    /\ tasks' = [tasks EXCEPT ![t].pc = "finished"]
    /\ UNCHANGED <<args, topologyInfo, diskInfos, cluster, pc, result,
                   volumeIds, next, call, wg, gate, rpcs, out>>

\* line 157
wgDone(t) ==
    /\ TaskAt(t, "done")
    /\ wg' = [wg EXCEPT ![tasks[t].call] = @ - 1]
    /\ tasks' = [tasks EXCEPT ![t].pc = "finished"]
    /\ UNCHANGED <<args, topologyInfo, diskInfos, cluster, pc, result,
                   volumeIds, next, call, gate, rpcs, out>>

doMoveOneVolume(t) ==
    \/ markVolumeReadonly(t)
    \/ LiveMoveVolume(t)
    \/ adjustVolumeCount(t)
    \/ deleteVolume(t)

goroutine(t) ==
    \/ doMoveOneVolume(t)
    \/ releaseSource(t)
    \/ releaseDest(t)
    \/ condSignal(t)
    \/ wgDone(t)

Next ==
    \/ DoStart
    \/ DoCollect
    \/ doVolumeTierMove
    \/ DoReturn
    \/ \E t \in 1..Cardinality(VolumeIds) : goroutine(t)

Spec == Init /\ [][Next]_vars

\* the clusters of Init in which two nodes have every slot free and two have
\* none
InitLive ==
    /\ Init
    /\ diskInfos["n2"].VolumeCount = 0
    /\ diskInfos["n3"].VolumeCount = MaxSlots

\* the Go scheduler runs every goroutine that can run, and every lookup and
\* every call to a volume server returns: the loop of Do over the candidates
\* and every goroutine it starts take the steps they can take
FairSpec ==
    /\ InitLive
    /\ [][Next]_vars
    /\ WF_vars(doVolumeTierMove \/ DoReturn)
    /\ \A t \in 1..Cardinality(VolumeIds) : WF_vars(goroutine(t))

(***************************************************************************)
(* The selector on its own: Do stands before line 76 with any flags and a  *)
(* snapshot that lists volume 1 on n1 and n2 and volume 2 on n1.           *)
(***************************************************************************)
Collections == {<<"a">>, <<"a", "b">>}
Patterns == {<< >>, <<"a">>, <<"a", "*">>, <<"?">>, <<"[">>}
\* bytes: around 29% and 50% of 25 MB
Sizes == {7602175, 7602176, 7602177, 13107200, 13107201}

SelectorArgs ==
    {[DefaultArgs EXCEPT !.collectionPattern = p, !.fullPercentage = f,
                         !.quietPeriod = q] :
        p \in Patterns, f \in {29, 50},
        q \in {TicksPerSecond, TicksPerSecond + 1, 2 * TicksPerSecond}}

VolumeInfo(id, collection, diskType, size, modifiedAtSecond) ==
    [Id |-> id, Collection |-> collection, DiskType |-> diskType,
     Size |-> size, ModifiedAtSecond |-> modifiedAtSecond]

InitSelector ==
    /\ pc = "collect"
    /\ args \in SelectorArgs
    /\ replicas = (1 :> {"n1", "n2"} @@ 2 :> {"n1"})
    /\ \E first \in [Collection : Collections, DiskType : {"hdd", "ssd", ""},
                     Size : Sizes, ModifiedAtSecond : 7..9],
          second \in [Size : {7602175, 13107201}, ModifiedAtSecond : {7, 10}],
          other \in [Collection : Collections, Size : {13107201}] :
          topologyInfo =
             [n \in Nodes |->
                IF n = "n1"
                THEN <<VolumeInfo(1, first.Collection, first.DiskType, first.Size,
                                  first.ModifiedAtSecond),
                       VolumeInfo(2, other.Collection, "hdd", other.Size, 0)>>
                ELSE IF n = "n2"
                THEN <<VolumeInfo(1, first.Collection, "hdd", second.Size,
                                  second.ModifiedAtSecond)>>
                ELSE << >>]
    /\ readonly = [v \in VolumeIds |-> {}]
    /\ diskInfos = [n \in Nodes |-> [VolumeCount |-> 0, MaxVolumeCount |-> MaxSlots]]
    /\ Idle

SelectorSpec == InitSelector /\ [][DoCollect]_vars

(***************************************************************************)
(* The choice of a destination on its own: Do stands at line 83 with       *)
(* volume 1 as the only candidate, on any nodes with any slot counts.      *)
(***************************************************************************)
MaxChoiceSlots == 2

InitChoice ==
    /\ pc = "loop"
    /\ args \in {[DefaultArgs EXCEPT !.applyChange = a] : a \in BOOLEAN}
    /\ \E on \in {S \in SUBSET Nodes : Cardinality(S) \in 1..3} :
          /\ replicas = (1 :> on @@ 2 :> {})
          /\ topologyInfo =
                [n \in Nodes |-> IF n \in on THEN <<FullQuietVolume(1)>> ELSE << >>]
    /\ readonly = [v \in VolumeIds |-> {}]
    /\ diskInfos \in
          [Nodes -> {d \in [VolumeCount : 0..MaxChoiceSlots,
                            MaxVolumeCount : 0..MaxChoiceSlots] :
                        d.VolumeCount <= d.MaxVolumeCount}]
    /\ result = "pending"
    /\ volumeIds = <<1>>
    /\ next = 1
    /\ call = NoCall
    /\ wg = <<0>>
    /\ activeServers = {}
    /\ condLocker = ""
    /\ woken = FALSE
    /\ tasks = << >>
    /\ rpcs = << >>
    /\ out = << >>

ChoiceSpec == InitChoice /\ [][chooseTarget]_vars

(***************************************************************************)
(* Properties                                                              *)
(***************************************************************************)
\* the nodes the goroutine of task t was admitted for and has not released
heldBy(t) ==
    IF tasks[t].pc \in {"mark", "copy", "count", "delete", "releaseSource"}
    THEN {tasks[t].sourceVolumeServer, tasks[t].dst}
    ELSE IF tasks[t].pc = "releaseDest" THEN {tasks[t].dst}
    ELSE {}

\* the free slots of node n on the target tier, and the nodes that may take
\* a replica of volume v
FreeSlots(n) ==
    diskInfos[n].MaxVolumeCount - diskInfos[n].VolumeCount

Viable(v) ==
    {n \in Nodes : n \notin replicas[v] /\ FreeSlots(n) > 0}

\* the line the step has printed, if it has printed one
Printed(line) ==
    /\ Len(out') = Len(out) + 1
    /\ out'[Len(out')].line = line

\* C1: at any moment no node is the source or the destination of more than
\* one migration that has passed the gate and has not yet released the node.
C1_MutualExclusionPerNode ==
    \A t1 \in DOMAIN tasks, t2 \in DOMAIN tasks :
        t1 # t2 => heldBy(t1) \cap heldBy(t2) = {}

\* a second migration is copying from or to a node the first one used
C1_Witness ==
    /\ Len(tasks) = 2
    /\ tasks[1].pc = "finished"
    /\ tasks[2].pc = "copy"
    /\ heldBy(2) \cap {tasks[1].sourceVolumeServer, tasks[1].dst} # {}

\* C2: in a run without -force no step sends an RPC, starts a goroutine,
\* touches activeServers or changes where a volume is or whether it is
\* read-only; VolumeCount changes only by one, on the destination just printed
\* for a volume, and on no step else.
C2_DryRunSideEffectFree ==
    [][~args'.applyChange =>
          /\ rpcs' = rpcs
          /\ tasks' = tasks
          /\ activeServers' = activeServers
          /\ replicas' = replicas
          /\ readonly' = readonly
          /\ IF Printed("moving volume")
             THEN diskInfos' = [diskInfos EXCEPT
                                   ![out'[Len(out')].to].VolumeCount = @ + 1]
             ELSE diskInfos' = diskInfos]_vars

\* a dry run has returned after it found a destination for either volume
C2_Witness ==
    /\ ~args.applyChange
    /\ pc = "returned"
    /\ Len(out) = 2
    /\ \A i \in 1..2 : out[i].line = "moving volume"
    /\ \E n \in Nodes : FreeSlots(n) = 0 /\ n \in {out[1].to, out[2].to}

\* C3: when Do has returned, every goroutine it started has run to its end,
\* every WaitGroup is back at zero and activeServers is empty.
C3_JoinBeforeReturn ==
    pc = "returned" =>
        /\ \A t \in DOMAIN tasks : tasks[t].pc = "finished"
        /\ \A i \in DOMAIN wg : wg[i] = 0
        /\ activeServers = {}

\* Do has returned after two migrations
C3_Witness ==
    /\ pc = "returned"
    /\ Len(tasks) = 2
    /\ \E i \in DOMAIN rpcs : rpcs[i].op = "copy" /\ rpcs[i].ok

Handled(v) ==
    \E j \in DOMAIN out :
        /\ out[j].vid = v
        /\ out[j].line \in {"volume not found", "can not find disk type",
                            "moving volume"}

\* C5: whatever failed for a candidate, Do goes through the candidates in
\* order, and once it returns from the loop it has handled every candidate
\* and returns nil.
C5_FailuresDoNotAbort ==
    /\ \A i \in DOMAIN volumeIds : i < next => Handled(volumeIds[i])
    /\ (pc = "returned" /\ volumeIds # << >>) =>
          /\ result = "nil"
          /\ \A i \in DOMAIN volumeIds : Handled(volumeIds[i])

\* the first candidate failed, the second was moved, and Do returned nil
C5_Witness ==
    /\ pc = "returned"
    /\ result = "nil"
    /\ Len(volumeIds) = 2
    /\ \E j \in DOMAIN out :
          /\ out[j].vid = volumeIds[1]
          /\ out[j].line \in {"volume not found", "move volume failed"}
    /\ \E t \in DOMAIN tasks :
          /\ tasks[t].vid = volumeIds[2]
          /\ tasks[t].pc = "finished"
          /\ ~tasks[t].err

\* C6: every selected volume has a replica in the snapshot that is on the
\* source tier, passes the collection filter, has been quiet for at least
\* quietPeriod and whose size is strictly greater than
\* fullPercentage/100 x volumeSizeLimitMb MB.
C6_SelectorSoundness ==
    pc = "loop" =>
        \A i \in DOMAIN volumeIds :
            \E n \in Nodes : \E k \in DOMAIN topologyInfo[n] :
                LET v == topologyInfo[n][k]
                IN  /\ v.Id = volumeIds[i]
                    /\ ToDiskType(v.DiskType) = ToDiskType(args.source)
                    /\ \/ args.collectionPattern = << >>
                       \/ Match(args.collectionPattern, v.Collection).matched
                    /\ (args.nowUnixSeconds - v.ModifiedAtSecond) * TicksPerSecond
                          >= args.quietPeriod
                    /\ v.Size * 100
                          > args.fullPercentage * args.volumeSizeLimitMb * 1048576

\* C7: no volume is twice among the candidates; for any volume at most one
\* destination is printed, at most one goroutine started and at most one
\* copy sent in a run.
C7_OneMigrationPerVolume ==
    /\ \A i \in DOMAIN volumeIds, j \in DOMAIN volumeIds :
          i # j => volumeIds[i] # volumeIds[j]
    /\ \A v \in VolumeIds :
          /\ Cardinality({t \in DOMAIN tasks : tasks[t].vid = v}) <= 1
          /\ Cardinality({i \in DOMAIN rpcs :
                             rpcs[i].op = "copy" /\ rpcs[i].vid = v}) <= 1
          /\ Cardinality({i \in DOMAIN out :
                             out[i].line = "moving volume" /\ out[i].vid = v}) <= 1

\* a volume listed on several nodes was tried once, its copy failed, and Do
\* returned
C7_Witness ==
    /\ pc = "returned"
    /\ \E v \in VolumeIds :
          /\ Cardinality({n \in Nodes : \E k \in DOMAIN topologyInfo[n] :
                             topologyInfo[n][k].Id = v}) >= 2
          /\ \E i \in DOMAIN rpcs :
                rpcs[i].op = "copy" /\ rpcs[i].vid = v /\ ~rpcs[i].ok

\* C8: the destination printed for a volume holds no replica of it and has a
\* free slot, no node that holds no replica has strictly more free slots, and
\* the source printed holds a replica and is not the destination.
C8_DestinationChoice ==
    [][Printed("moving volume") =>
          LET l == out'[Len(out')]
          IN  /\ l.to \in Viable(l.vid)
              /\ \A n \in Viable(l.vid) : FreeSlots(n) <= FreeSlots(l.to)
              /\ l.from \in replicas[l.vid]
              /\ l.from # l.to]_vars

\* a destination was chosen although a node that holds a replica has more
\* free slots than any other
C8_Witness ==
    /\ args.applyChange
    /\ pc = "lock"
    /\ \E n \in replicas[call.vid] :
          \A m \in Nodes \ replicas[call.vid] : FreeSlots(n) > FreeSlots(m)
    /\ \E m \in Nodes \ replicas[call.vid] :
          m # call.dst /\ FreeSlots(m) < FreeSlots(call.dst)

\* C9: "can not find disk type" is printed for a volume only when no node
\* without a replica has a free slot, and that step sends no RPC, starts no
\* goroutine and changes no VolumeCount, activeServers or result; a
\* destination is printed only when such a node exists; the line is printed
\* at most once for a volume, which then has no destination printed and no
\* RPC sent; and Do returns nil from the loop.
C9_NoTargetOutcome ==
    [][/\ Printed("can not find disk type") =>
             /\ Viable(out'[Len(out')].vid) = {}
             /\ rpcs' = rpcs
             /\ tasks' = tasks
             /\ diskInfos' = diskInfos
             /\ activeServers' = activeServers
             /\ replicas' = replicas
             /\ result' = result
       /\ Printed("moving volume") => Viable(out'[Len(out')].vid) # {}
       /\ \A v \in VolumeIds :
             LET none == {i \in DOMAIN out' :
                             /\ out'[i].vid = v
                             /\ out'[i].line = "can not find disk type"}
             IN  /\ Cardinality(none) <= 1
                 /\ none # {} =>
                       /\ \A i \in DOMAIN out' :
                             out'[i].vid = v => out'[i].line # "moving volume"
                       /\ \A i \in DOMAIN rpcs' : rpcs'[i].vid # v
       /\ (pc' = "returned" /\ volumeIds' # << >>) => result' = "nil"]_vars

\* one volume found no destination, the other was moved, and Do returned nil
C9_Witness ==
    /\ pc = "returned"
    /\ result = "nil"
    /\ \E i \in DOMAIN out : out[i].line = "can not find disk type"
    /\ \E i \in DOMAIN rpcs : rpcs[i].op = "copy" /\ rpcs[i].ok

\* C10: once the goroutine of a candidate is started, Do can go on to the
\* next candidate whether or not that goroutine has finished.
C10_NonBlockingDispatch ==
    (pc = "wgWait" /\ next < Len(volumeIds)) => ENABLED wgWait

\* the indexes of the RPCs of kind op sent for volume v
RpcsOf(op, v) ==
    {i \in DOMAIN rpcs : rpcs[i].op = op /\ rpcs[i].vid = v}

\* the locations the lookup gave to task t
LocationsOf(t) ==
    {tasks[t].locations[i] : i \in DOMAIN tasks[t].locations}

\* "move volume failed" was printed for volume v
ReportedFailed(v) ==
    \E j \in DOMAIN out : out[j].vid = v /\ out[j].line = "move volume failed"

\* C11: activeServers is exactly the set of sources and destinations of the
\* goroutines that were started and have not yet deleted them again: a
\* running goroutine has both its nodes in it, one that is through with
\* lines 154-155 has none, whether or not its marking or copy failed; and a
\* step that adds to activeServers adds the source and the destination of
\* the one goroutine it starts, both at once.
C11_ActiveSetExact ==
    [][/\ activeServers' = UNION {heldBy(t)' : t \in DOMAIN tasks'}
       /\ \A t \in DOMAIN tasks' :
             /\ tasks'[t].pc \in {"mark", "copy", "count", "delete"} =>
                   {tasks'[t].sourceVolumeServer, tasks'[t].dst}
                       \subseteq activeServers'
             /\ tasks'[t].pc \in {"signal", "done", "finished"} =>
                   \A u \in DOMAIN tasks' :
                       heldBy(u)' # {} => u # t
       /\ ~(activeServers' \subseteq activeServers) =>
             /\ Len(tasks') = Len(tasks) + 1
             /\ activeServers' \ activeServers =
                   {tasks'[Len(tasks')].sourceVolumeServer, tasks'[Len(tasks')].dst}
             /\ Cardinality(activeServers' \ activeServers) = 2]_vars

\* a goroutine whose copy failed has finished and left activeServers empty,
\* and the next one is running with both its nodes entered
C11_Witness ==
    /\ Len(tasks) = 2
    /\ tasks[1].err
    /\ tasks[1].pc = "finished"
    /\ tasks[2].pc = "delete"
    /\ activeServers = {tasks[2].sourceVolumeServer, tasks[2].dst}

\* the order of the RPCs of the goroutine of task t
StepsInOrder(t) ==
    LET v       == tasks[t].vid
        marks   == RpcsOf("readonly", v)
        copies  == RpcsOf("copy", v)
        deletes == RpcsOf("delete", v)
    IN  /\ copies # {} =>
              \A c \in copies : \A n \in LocationsOf(t) :
                  \E i \in marks : i < c /\ rpcs[i].node = n /\ rpcs[i].ok
        /\ deletes # {} =>
              \A d \in deletes : \E c \in copies : c < d /\ rpcs[c].ok
        /\ (\E i \in marks : ~rpcs[i].ok) =>
              /\ copies = {}
              /\ deletes = {}
              /\ tasks[t].err
              /\ ReportedFailed(v)

\* C12: for every volume the copy is sent only after every location was
\* marked read-only with success; deleteVolume is sent and VolumeCount is
\* raised only after the copy succeeded; and when a marking failed there is
\* no copy, no delete and no count for the volume, and the failure is
\* reported.
C12_StepOrdering ==
    [][/\ \A t \in DOMAIN tasks' : StepsInOrder(t)'
       /\ (args.applyChange /\ diskInfos' # diskInfos) =>
             \E t \in DOMAIN tasks :
                /\ tasks'[t] # tasks[t]
                /\ ~tasks[t].err
                /\ \E c \in RpcsOf("copy", tasks[t].vid) : rpcs[c].ok
                /\ \A i \in RpcsOf("readonly", tasks[t].vid) : rpcs[i].ok]_vars

\* one volume failed at the marking of its second location, the other went
\* through marking, copy, count and delete
C12_Witness ==
    /\ Len(tasks) = 2
    /\ \A t \in 1..2 : tasks[t].pc = "finished"
    /\ \E i \in RpcsOf("readonly", tasks[1].vid) : rpcs[i].ok
    /\ \E i \in RpcsOf("readonly", tasks[1].vid) : ~rpcs[i].ok
    /\ \E d \in RpcsOf("delete", tasks[2].vid) : rpcs[d].ok

\* the copy of task t has failed
CopyFailed(t) ==
    \E c \in RpcsOf("copy", tasks[t].vid) : ~rpcs[c].ok

\* what is left of task t once its goroutine is through after a failed copy
LeftIntact(t) ==
    LET v == tasks[t].vid
    IN  /\ replicas[v] = LocationsOf(t)
        /\ LocationsOf(t) \subseteq readonly[v]
        /\ RpcsOf("delete", v) = {}
        /\ ReportedFailed(v)
        /\ activeServers \cap {tasks[t].sourceVolumeServer, tasks[t].dst} = {}

\* C13: when the copy fails after the marking succeeded, no step of that
\* goroutine changes a VolumeCount or where the volume is; and once the
\* goroutine is through and its call has yet to return, every location of the volume still has it and has
\* it read-only, no deleteVolume was sent for it, the failure is reported,
\* and neither its source nor its destination is in activeServers.
C13_CopyFailureIntact ==
    [][\A t \in DOMAIN tasks' :
          CopyFailed(t)' =>
             /\ tasks'[t].err
             /\ (t \in DOMAIN tasks /\ tasks'[t] # tasks[t]) =>
                   /\ diskInfos' = diskInfos
                   /\ replicas' = replicas
             /\ (tasks'[t].pc \in {"signal", "done", "finished"}
                    /\ tasks'[t].call = next') =>
                   LeftIntact(t)']_vars

\* the copy of a volume of two replicas has failed and its goroutine is done
C13_Witness ==
    \E t \in DOMAIN tasks :
        /\ CopyFailed(t)
        /\ Len(tasks[t].locations) = 2
        /\ tasks[t].pc = "finished"
        /\ tasks[t].call = next

\* the goroutine of task t is past its delete loop after a copy that
\* succeeded, and it left things as they should be
CleanedUp(t) ==
    LET v == tasks[t].vid
    IN  ((\E c \in RpcsOf("copy", v) : rpcs[c].ok)
            /\ tasks[t].pc \notin {"count", "delete"}) =>
           /\ \A n \in LocationsOf(t) \ {tasks[t].sourceVolumeServer, tasks[t].dst} :
                 Cardinality({d \in RpcsOf("delete", v) : rpcs[d].node = n}) = 1
           /\ ~tasks[t].err
           /\ ~ReportedFailed(v)

\* C14: after a copy that succeeded, every location that is neither source
\* nor destination gets exactly one deleteVolume whether or not an earlier
\* one failed, no VolumeCount is ever lowered, and the goroutine ends without
\* an error and without a failure reported for the volume.
C14_CleanupFailuresIsolated ==
    [][/\ \A n \in Nodes : diskInfos'[n].VolumeCount >= diskInfos[n].VolumeCount
       /\ \A t \in DOMAIN tasks' : CleanedUp(t)']_vars

\* the first deleteVolume of a moved volume failed, the second succeeded
C14_Witness ==
    \E t \in DOMAIN tasks :
        /\ tasks[t].pc = "finished"
        /\ ~tasks[t].err
        /\ \E d1 \in RpcsOf("delete", tasks[t].vid),
              d2 \in RpcsOf("delete", tasks[t].vid) :
              d1 < d2 /\ ~rpcs[d1].ok /\ rpcs[d2].ok
        /\ diskInfos[tasks[t].dst].VolumeCount = MaxSlots

\* the volume v of the snapshot is skipped by none of the four filters as
\* they are documented
PassesFilters(v) ==
    /\ ToDiskType(v.DiskType) = ToDiskType(args.source)
    /\ \/ args.collectionPattern = << >>
       \/ Match(args.collectionPattern, v.Collection).matched
    /\ ~((args.nowUnixSeconds - v.ModifiedAtSecond) * TicksPerSecond
            < args.quietPeriod)
    /\ ~(v.Size * 100 <= args.fullPercentage * args.volumeSizeLimitMb * 1048576)

\* C15: a volume id is among the candidates whenever some replica of it in
\* the snapshot is on the source tier, matches the pattern, has not been
\* written for quietPeriod or longer (exactly quietPeriod counts) and is
\* larger than fullPercentage/100 x volumeSizeLimitMb MB, whatever else is
\* listed on the same node.
C15_SelectorCompleteness ==
    pc = "loop" =>
        \A n \in Nodes : \A k \in DOMAIN topologyInfo[n] :
            PassesFilters(topologyInfo[n][k]) =>
                \E i \in DOMAIN volumeIds : volumeIds[i] = topologyInfo[n][k].Id

\* C16: activeServers is read and changed only by a goroutine that holds the
\* lock of activeServersCond: no step changes activeServers while the lock
\* is free.
C16_SingleLockDiscipline ==
    [][activeServers' # activeServers => condLocker # ""]_vars

\* C18: when every goroutine that can run is run and every call returns, Do
\* returns from its loop over the candidates, whatever they are; every wait for the gate ends with the goroutine started, and
\* every wg.Wait() ends.
C18_Termination ==
    /\ (pc = "loop") ~> (pc = "returned")
    /\ (pc \in {"lock", "check"}) ~> (pc = "wgWait")
    /\ (pc = "wgWait") ~> (pc = "loop")

\* Do has returned after two goroutines that both failed
C18_Witness ==
    /\ pc = "returned"
    /\ Len(tasks) = 2
    /\ \A t \in 1..2 : tasks[t].err /\ tasks[t].pc = "finished"

\* the step raises the VolumeCount of node d by one and changes no other
CountsOneOn(d) ==
    diskInfos' = [diskInfos EXCEPT ![d].VolumeCount = @ + 1]

\* C19: no VolumeCount ever exceeds its MaxVolumeCount, in a dry run or a
\* real one; a step that changes the counts raises one count by one, that of
\* the destination just printed in a dry run or of the goroutine that has
\* copied, and changes nothing else in them.
C19_CapacityNotOvercommitted ==
    [][/\ \A n \in Nodes : diskInfos'[n].VolumeCount <= diskInfos'[n].MaxVolumeCount
       /\ diskInfos' # diskInfos =>
             \/ /\ ~args.applyChange
                /\ Printed("moving volume")
                /\ CountsOneOn(out'[Len(out')].to)
             \/ /\ args.applyChange
                /\ \E t \in DOMAIN tasks :
                      /\ tasks[t].pc = "count"
                      /\ tasks'[t].pc = "delete"
                      /\ CountsOneOn(tasks[t].dst)]_vars

\* two volumes were moved, each filled the last free slot of its destination
C19_Witness ==
    /\ args.applyChange
    /\ Len(tasks) = 2
    /\ \A t \in 1..2 :
          /\ ~tasks[t].err
          /\ tasks[t].pc = "finished"
          /\ diskInfos[tasks[t].dst].VolumeCount = diskInfos[tasks[t].dst].MaxVolumeCount
    /\ tasks[1].dst # tasks[2].dst

\* C20: at most one goroutine is running at any time; activeServers is empty
\* whenever Do is about to look at a candidate; activeServers never holds
\* more than 2 nodes; and Do never waits on activeServersCond.
C20_Serialized ==
    /\ Cardinality({t \in DOMAIN tasks : tasks[t].pc # "finished"}) <= 1
    /\ pc = "loop" => activeServers = {}
    /\ Cardinality(activeServers) <= 2
    /\ pc # "wait"

\* the second goroutine runs after the first has finished, although the two
\* have no node in common
C20_Witness ==
    /\ Len(tasks) = 2
    /\ tasks[1].pc = "finished"
    /\ tasks[2].pc = "mark"
    /\ Cardinality(activeServers) = 2
    /\ {tasks[1].sourceVolumeServer, tasks[1].dst}
          \cap {tasks[2].sourceVolumeServer, tasks[2].dst} = {}

====
